---- MODULE Spec2Model ----
(***************************************************************************)
(* A model of apcacli (src/main.rs): one invocation of the command line    *)
(* client.  main parses a command, the command's handler issues its        *)
(* request(s) through the apca client and builds a future, and             *)
(* block_on_all drives that future on a single thread until it resolves.   *)
(*                                                                         *)
(* Text is modelled as a sequence of pieces (strings); format!("a{}", x)   *)
(* is the concatenation of the literal piece and the pieces of x.  Symbols *)
(* and padded fields are sequences of one-character strings.  Num values   *)
(* are whole numbers in the model, printed as their decimal digits.        *)
(***************************************************************************)
EXTENDS Integers, Sequences, FiniteSets, TLC

(* ------------------------------ bounds --------------------------------- *)

\* The largest number of orders a get-orders response carries in the model.
MaxOrders == 2

\* orders::OrdersReq { limit: 500 }
OrdersLimit == 500

\* The width of the side column in the row format, {side:>4}.
SideWidth == 4

(* ------------------------------ values --------------------------------- *)

None == [some |-> FALSE, val |-> 0]

Some(v) == [some |-> TRUE, val |-> v]

Sides == {"Buy", "Sell"}

Types == {"Market", "Limit", "Stop", "StopLimit"}

\* Ticker symbols: byte strings, written as sequences of characters.
Symbols == {<<"A">>, <<"A", "A">>, <<"M">>}

Chars == {"A", "M"}

\* The byte of an ASCII character (String::cmp compares bytes).
ByteOf == [c \in Chars |-> IF c = "A" THEN 65 ELSE 77]

\* The uuids of the model; order::Id wraps one.
OrderIds == 1 .. MaxOrders

\* The error descriptions the transport reports.
Details == {"timeout", "refused"}

\* The endpoints of apca::api::v1 the program issues requests to.
Endpoints == {"account::Get", "order::Post", "order::Delete", "orders::Get"}

\* The account snapshots the API answers get-account with.
Accounts ==
  { [id |-> 1, status |-> "Active", currency |-> "USD",
     buying_power |-> 1500, cash |-> 1500, withdrawable_cash |-> 23,
     portfolio_value |-> 1500, day_trader |-> FALSE,
     trading_blocked |-> FALSE, transfers_blocked |-> FALSE,
     account_blocked |-> FALSE],
    [id |-> 2, status |-> "ApprovalPending", currency |-> "EUR",
     buying_power |-> 0, cash |-> 7, withdrawable_cash |-> 0,
     portfolio_value |-> 7, day_trader |-> TRUE,
     trading_blocked |-> TRUE, transfers_blocked |-> FALSE,
     account_blocked |-> TRUE] }

NoAccount ==
  [id |-> 0, status |-> "Onboarding", currency |-> "",
   buying_power |-> 0, cash |-> 0, withdrawable_cash |-> 0,
   portfolio_value |-> 0, day_trader |-> FALSE,
   trading_blocked |-> FALSE, transfers_blocked |-> FALSE,
   account_blocked |-> FALSE]

\* Orders that differ in what decides the layout of the listing.
LayoutOrders ==
  { [symbol |-> s, side |-> sq[1], quantity |-> sq[2], type_ |-> "Market",
     limit_price |-> None, stop_price |-> None] :
       s \in Symbols, sq \in {<<"Buy", 7>>, <<"Sell", 1500>>} }

\* Orders that differ in their type and in which of their prices are set,
\* those whose prices do not match their type included.
PricedOrders ==
  { [symbol |-> <<"A">>, side |-> "Buy", quantity |-> 23, type_ |-> t,
     limit_price |-> l, stop_price |-> s] :
       t \in Types, l \in {None, Some(150)}, s \in {None, Some(95)} }

\* What one order of a get-orders response can be, its id aside.
OrderPool == LayoutOrders \cup PricedOrders

\* The get-orders responses: up to MaxOrders orders with distinct ids.
OrderLists ==
  UNION { { [i \in 1 .. n |->
              [id |-> i, symbol |-> f[i].symbol, side |-> f[i].side,
               quantity |-> f[i].quantity, type_ |-> f[i].type_,
               limit_price |-> f[i].limit_price,
               stop_price |-> f[i].stop_price]] :
            f \in [1 .. n -> OrderPool] } : n \in 0 .. MaxOrders }

\* The commands structopt can hand to main.
Commands ==
  {[kind |-> "account"], [kind |-> "list"]}
    \cup {[kind |-> "cancel", id |-> i] : i \in OrderIds}
    \cup {[kind |-> "submit", side |-> sd, symbol |-> sy, quantity |-> q,
           limit_price |-> l, stop_price |-> s, today |-> t] :
            sd \in Sides, sy \in {<<"A">>, <<"A", "A">>}, q \in {0, 10},
            l \in {None, Some(150), Some(95)},
            s \in {None, Some(150), Some(95)}, t \in BOOLEAN}

NoRequest ==
  [symbol |-> <<>>, quantity |-> 0, side |-> "Buy", type_ |-> "Market",
   time_in_force |-> "Day", limit_price |-> None, stop_price |-> None]

(* ------------------------------- text ---------------------------------- *)

DigitChar == <<"0", "1", "2", "3", "4", "5", "6", "7", "8", "9">>

RECURSIVE Digits(_)
\* Display of a whole number: its decimal digits.
Digits(n) ==
  IF n < 10 THEN <<DigitChar[n + 1]>>
  ELSE Digits(n \div 10) \o <<DigitChar[(n % 10) + 1]>>

Spaces(n) == [i \in 1 .. n |-> " "]

\* {x:>w$}: right-aligned, padded with spaces to at least w characters.
PadLeft(s, w) == IF Len(s) >= w THEN s ELSE Spaces(w - Len(s)) \o s

\* {x:<w$}: left-aligned, padded with spaces to at least w characters.
PadRight(s, w) == IF Len(s) >= w THEN s ELSE s \o Spaces(w - Len(s))

\* Uuid::to_hyphenated_ref: 8-4-4-4-12 lowercase hexadecimal digits.
Hyphenated(u) == <<"00000000-0000-0000-0000-00000000000", DigitChar[u + 1]>>

\* format!("<context>{}", e)
Wrap(context, e) == <<context>> \o e

RECURSIVE Cmp(_, _)
\* String::cmp: lexicographic comparison of the bytes.
Cmp(a, b) ==
  IF a = <<>> /\ b = <<>> THEN "Equal"
  ELSE IF a = <<>> THEN "Less"
  ELSE IF b = <<>> THEN "Greater"
  ELSE IF ByteOf[Head(a)] < ByteOf[Head(b)] THEN "Less"
  ELSE IF ByteOf[Head(a)] > ByteOf[Head(b)] THEN "Greater"
  ELSE Cmp(Tail(a), Tail(b))

(* --------------------------- pure functions ---------------------------- *)

format_account_status(status) ==
  CASE status = "Onboarding" -> "onboarding"
    [] status = "SubmissionFailed" -> "submission failed"
    [] status = "Submitted" -> "submitted"
    [] status = "Updating" -> "updating"
    [] status = "ApprovalPending" -> "approval pending"
    [] status = "Active" -> "active"
    [] status = "Rejected" -> "rejected"

\* The println! of the account handler.
AccountReport(a) ==
  [id |-> Hyphenated(a.id),
   status |-> format_account_status(a.status),
   buying_power |-> Digits(a.buying_power) \o <<" ", a.currency>>,
   cash |-> Digits(a.cash) \o <<" ", a.currency>>,
   withdrawable_cash |-> Digits(a.withdrawable_cash) \o <<" ", a.currency>>,
   portfolio_value |-> Digits(a.portfolio_value) \o <<" ", a.currency>>,
   day_trader |-> a.day_trader,
   trading_blocked |-> a.trading_blocked,
   transfers_blocked |-> a.transfers_blocked,
   account_blocked |-> a.account_blocked]

\* InferType with the arms of Limit and Stop exchanged.
InferType_swapped(limit_price, stop_price) ==
  CASE limit_price.some /\ stop_price.some -> "StopLimit"
    [] limit_price.some /\ ~stop_price.some -> "Stop"
    [] ~limit_price.some /\ stop_price.some -> "Limit"
    [] ~limit_price.some /\ ~stop_price.some -> "Market"

\* let type_ = match (limit_price.is_some(), stop_price.is_some())
InferType(limit_price, stop_price) ==
  CASE limit_price.some /\ stop_price.some -> "StopLimit"
    [] limit_price.some /\ ~stop_price.some -> "Limit"
    [] ~limit_price.some /\ stop_price.some -> "Stop"
    [] ~limit_price.some /\ ~stop_price.some -> "Market"

\* InferTimeInForce with its branches exchanged.
InferTimeInForce_inverted(today) == IF today THEN "UntilCanceled" ELSE "Day"

\* let time_in_force = if today { Day } else { UntilCanceled }
InferTimeInForce(today) == IF today THEN "Day" ELSE "UntilCanceled"

\* order::OrderReq { symbol, quantity, side, type_, time_in_force, .. }
BuildRequest(c) ==
  [symbol |-> c.symbol,
   quantity |-> c.quantity,
   side |-> c.side,
   type_ |-> InferType(c.limit_price, c.stop_price),
   time_in_force |-> InferTimeInForce(c.today),
   limit_price |-> c.limit_price,
   stop_price |-> c.stop_price]

Max(a, b) == IF a >= b THEN a ELSE b

RECURSIVE FoldMax(_, _)
\* iter().fold(m, |m, w| max(m, w)) over the widths ws, front to back.
FoldMax(m, ws) ==
  IF ws = <<>> THEN m ELSE FoldMax(Max(m, Head(ws)), Tail(ws))

\* max_width that leaves the last element of the slice out of the fold.
max_width_short(slice, f) ==
  FoldMax(0, [i \in 1 .. Len(slice) - 1 |-> f[slice[i]]])

\* slice.iter().fold(0, |m, i| max(m, f(&i))); f is a function on the
\* elements of the slice.
max_width(slice, f) == FoldMax(0, [i \in 1 .. Len(slice) |-> f[slice[i]]])

format_quantity(quantity) == Digits(quantity)

\* The elements of a slice.
Elements(slice) == {slice[i] : i \in 1 .. Len(slice)}

\* |p| format_quantity(&p.quantity).len()
QtyLen(slice) == [p \in Elements(slice) |-> Len(format_quantity(p.quantity))]

\* |p| p.symbol.len()
SymLen(slice) == [p \in Elements(slice) |-> Len(p.symbol)]

RECURSIVE Insert_unstable(_, _)
\* Insert that puts o in front of the elements equal to it.
Insert_unstable(o, s) ==
  IF s = <<>> THEN <<o>>
  ELSE IF Cmp(o.symbol, s[Len(s)].symbol) \in {"Less", "Equal"}
       THEN Insert_unstable(o, SubSeq(s, 1, Len(s) - 1)) \o <<s[Len(s)]>>
       ELSE s \o <<o>>

RECURSIVE Insert(_, _)
\* Puts o into a sorted sequence behind every element that is not greater.
Insert(o, s) ==
  IF s = <<>> THEN <<o>>
  ELSE IF Cmp(o.symbol, s[Len(s)].symbol) = "Less"
       THEN Insert(o, SubSeq(s, 1, Len(s) - 1)) \o <<s[Len(s)]>>
       ELSE s \o <<o>>

RECURSIVE SortBySymbol(_)
\* orders.sort_by(|a, b| a.symbol.cmp(&b.symbol)): a stable sort.
SortBySymbol(os) ==
  IF os = <<>> THEN <<>>
  ELSE Insert(os[Len(os)], SortBySymbol(SubSeq(os, 1, Len(os) - 1)))

SideLabel(side) ==
  IF side = "Buy" THEN <<"b", "u", "y">> ELSE <<"s", "e", "l", "l">>

\* AssertedType whose arm for two prices asserts the type of the next arm.
AssertedType_copied(limit_price, stop_price) ==
  CASE limit_price.some /\ stop_price.some -> "Limit"
    [] limit_price.some /\ ~stop_price.some -> "Limit"
    [] ~limit_price.some /\ stop_price.some -> "Stop"
    [] ~limit_price.some /\ ~stop_price.some -> "Market"

\* The type each arm of the price match asserts with debug_assert!.
AssertedType(limit_price, stop_price) ==
  CASE limit_price.some /\ stop_price.some -> "StopLimit"
    [] limit_price.some /\ ~stop_price.some -> "Limit"
    [] ~limit_price.some /\ stop_price.some -> "Stop"
    [] ~limit_price.some /\ ~stop_price.some -> "Market"

\* PriceDescription that puts the limit in front of the stop.
PriceDescription_limit_first(order, cur) ==
  CASE order.limit_price.some /\ order.stop_price.some ->
         <<"limit @ ">> \o Digits(order.limit_price.val) \o <<" ", cur>>
           \o <<", stop @ ">> \o Digits(order.stop_price.val) \o <<" ", cur>>
    [] order.limit_price.some /\ ~order.stop_price.some ->
         <<"limit @ ">> \o Digits(order.limit_price.val) \o <<" ", cur>>
    [] ~order.limit_price.some /\ order.stop_price.some ->
         <<"stop @ ">> \o Digits(order.stop_price.val) \o <<" ", cur>>
    [] ~order.limit_price.some /\ ~order.stop_price.some -> <<>>

\* let price = match (order.limit_price, order.stop_price)
PriceDescription(order, cur) ==
  CASE order.limit_price.some /\ order.stop_price.some ->
         <<"stop @ ">> \o Digits(order.stop_price.val) \o <<" ", cur>>
           \o <<", limit @ ">> \o Digits(order.limit_price.val) \o <<" ", cur>>
    [] order.limit_price.some /\ ~order.stop_price.some ->
         <<"limit @ ">> \o Digits(order.limit_price.val) \o <<" ", cur>>
    [] ~order.limit_price.some /\ order.stop_price.some ->
         <<"stop @ ">> \o Digits(order.stop_price.val) \o <<" ", cur>>
    [] ~order.limit_price.some /\ ~order.stop_price.some -> <<>>

\* println!("{id} {side:>4} {qty:>qty_width$} {sym:<sym_width$} {price}")
Row(order, cur, qty_width, sym_width) ==
  [id |-> Hyphenated(order.id),
   side |-> PadLeft(SideLabel(order.side), SideWidth),
   qty |-> PadLeft(format_quantity(order.quantity), qty_width),
   sym |-> PadRight(order.symbol, sym_width),
   price |-> PriceDescription(order, cur)]

(* ------------------------------- state --------------------------------- *)

VARIABLES
  debug_assertions, \* whether the build compiles debug_assert! in
  cmd,              \* opts.command
  pc,               \* "main", "dispatch", "block_on_all", "render", "exit"
  issued,           \* per endpoint, the inputs client.issue was called with
  net,              \* per endpoint, the state of the request
  request,          \* the order::OrderReq built by order submit
  account,          \* the account the get-account response carries
  orders,           \* the orders the get-orders response carries
  created,          \* the id of the order the create-order response carries
  arrival,          \* the endpoints in the order their responses resolved
  currency,         \* order_list: let currency = account.currency
  sorted,           \* order_list: orders after sort_by
  qty_max,          \* order_list: let qty_max
  sym_max,          \* order_list: let sym_max
  next,             \* order_list: the index of the order the loop is at
  stdout,           \* what println! has written
  result            \* what main has returned

vars ==
  <<debug_assertions, cmd, pc, issued, net, request, account, orders,
    created, arrival, currency, sorted, qty_max, sym_max, next, stdout,
    result>>

world == <<account, orders, created, arrival>>

locals == <<currency, sorted, qty_max, sym_max, next>>

Running == [tag |-> "running", msg |-> <<>>]

Ok == [tag |-> "Ok", msg |-> <<>>]

Err(msg) == [tag |-> "Err", msg |-> msg]

Panic == [tag |-> "panic", msg |-> <<>>]

Idle == [state |-> "none", detail |-> ""]

Pending == [state |-> "pending", detail |-> ""]

Unsent(d) == [state |-> "unsent", detail |-> d]

Init ==
  /\ debug_assertions \in BOOLEAN
  /\ cmd \in Commands
  /\ pc = "main"
  /\ issued = [e \in Endpoints |-> <<>>]
  /\ net = [e \in Endpoints |-> Idle]
  /\ request = NoRequest
  /\ account = NoAccount
  /\ orders = <<>>
  /\ created = 0
  /\ arrival = <<>>
  /\ currency = ""
  /\ sorted = <<>>
  /\ qty_max = 0
  /\ sym_max = 0
  /\ next = 1
  /\ stdout = <<>>
  /\ result = Running

(* ------------------------------ actions -------------------------------- *)

\* main up to the dispatch: ApiInfo::from_env and Client::new.
Startup ==
  /\ pc = "main"
  /\ \/ /\ pc' = "dispatch"
        /\ UNCHANGED result
     \/ \E d \in Details, context \in
            {"failed to retrieve Alpaca environment information: ",
             "failed to create Alpaca client: "} :
          /\ result' = Err(Wrap(context, <<d>>))
          /\ pc' = "exit"
  /\ UNCHANGED <<debug_assertions, cmd, issued, net, request, world, locals,
                 stdout>>

\* account(client), up to the future it returns.
Account ==
  /\ pc = "dispatch"
  /\ cmd.kind = "account"
  /\ issued' = [issued EXCEPT !["account::Get"] = Append(@, <<>>)]
  /\ \/ /\ net' = [net EXCEPT !["account::Get"] = Pending]
        /\ pc' = "block_on_all"
        /\ UNCHANGED result
     \/ \E d \in Details :
          /\ net' = [net EXCEPT !["account::Get"] = Unsent(d)]
          /\ result' = Err(Wrap("failed to issue GET request to account endpoint: ", <<d>>))
          /\ pc' = "exit"
  /\ UNCHANGED <<debug_assertions, cmd, request, world, locals, stdout>>

\* order(client, Order::Submit { .. }), up to the future it returns.
OrderSubmit ==
  /\ pc = "dispatch"
  /\ cmd.kind = "submit"
  /\ request' = BuildRequest(cmd)
  /\ issued' = [issued EXCEPT !["order::Post"] = Append(@, BuildRequest(cmd))]
  /\ \/ /\ net' = [net EXCEPT !["order::Post"] = Pending]
        /\ pc' = "block_on_all"
        /\ UNCHANGED result
     \/ \E d \in Details :
          /\ net' = [net EXCEPT !["order::Post"] = Unsent(d)]
          /\ result' = Err(Wrap("failed to issue POST request to order endpoint: ", <<d>>))
          /\ pc' = "exit"
  /\ UNCHANGED <<debug_assertions, cmd, world, locals, stdout>>

\* order(client, Order::Cancel { id }), up to the future it returns.
OrderCancel ==
  /\ pc = "dispatch"
  /\ cmd.kind = "cancel"
  /\ issued' = [issued EXCEPT !["order::Delete"] = Append(@, cmd.id)]
  /\ \/ /\ net' = [net EXCEPT !["order::Delete"] = Pending]
        /\ pc' = "block_on_all"
        /\ UNCHANGED result
     \/ \E d \in Details :
          /\ net' = [net EXCEPT !["order::Delete"] = Unsent(d)]
          /\ result' = Err(Wrap("failed to issue DELETE request to order endpoint: ", <<d>>))
          /\ pc' = "exit"
  /\ UNCHANGED <<debug_assertions, cmd, request, world, locals, stdout>>

\* order_list(client), up to the future it returns: the two issue calls,
\* the second one only when the first did not return early through `?`.
OrderList ==
  /\ pc = "dispatch"
  /\ cmd.kind = "list"
  /\ \/ \E d \in Details :
          /\ issued' = [issued EXCEPT !["account::Get"] = Append(@, <<>>)]
          /\ net' = [net EXCEPT !["account::Get"] = Unsent(d)]
          /\ result' = Err(Wrap("failed to issue GET request to account endpoint: ", <<d>>))
          /\ pc' = "exit"
     \/ \E d \in Details :
          /\ issued' = [issued EXCEPT
                          !["account::Get"] = Append(@, <<>>),
                          !["orders::Get"] = Append(@, [limit |-> OrdersLimit])]
          /\ net' = [net EXCEPT !["account::Get"] = Pending,
                                !["orders::Get"] = Unsent(d)]
          /\ result' = Err(Wrap("failed to issue GET request to orders endpoint: ", <<d>>))
          /\ pc' = "exit"
     \/ /\ issued' = [issued EXCEPT
                        !["account::Get"] = Append(@, <<>>),
                        !["orders::Get"] = Append(@, [limit |-> OrdersLimit])]
        /\ net' = [net EXCEPT !["account::Get"] = Pending,
                              !["orders::Get"] = Pending]
        /\ pc' = "block_on_all"
        /\ UNCHANGED result
  /\ UNCHANGED <<debug_assertions, cmd, request, world, locals, stdout>>

\* The transport resolves a request that is in flight: with the endpoint's
\* output, or with an error description.  It does so whether or not the
\* program still waits for it: a response can come after the join has
\* already failed, when nothing polls the request any more.
Respond ==
  /\ pc \in {"block_on_all", "exit"}
  /\ \E e \in Endpoints :
       /\ net[e].state = "pending"
       /\ arrival' = Append(arrival, e)
       /\ \/ /\ net' = [net EXCEPT ![e] = [state |-> "ok", detail |-> ""]]
             /\ CASE e = "account::Get" ->
                       account' \in Accounts /\ UNCHANGED <<orders, created>>
                  [] e = "orders::Get" ->
                       orders' \in OrderLists /\ UNCHANGED <<account, created>>
                  [] e = "order::Post" ->
                       created' \in OrderIds /\ UNCHANGED <<account, orders>>
                  [] e = "order::Delete" ->
                       UNCHANGED <<account, orders, created>>
          \/ \E d \in Details :
               /\ net' = [net EXCEPT ![e] = [state |-> "err", detail |-> d]]
               /\ UNCHANGED <<account, orders, created>>
  /\ UNCHANGED <<debug_assertions, cmd, pc, issued, request, locals, stdout,
                 result>>

\* block_on_all polls the future of account: map_err, then and_then.
PollAccount ==
  /\ pc = "block_on_all"
  /\ cmd.kind = "account"
  /\ net["account::Get"].state \in {"ok", "err"}
  /\ IF net["account::Get"].state = "err"
     THEN /\ result' = Err(Wrap("failed to retrieve account information: ",
                                <<net["account::Get"].detail>>))
          /\ UNCHANGED stdout
     ELSE /\ stdout' = Append(stdout, AccountReport(account))
          /\ result' = Ok
  /\ pc' = "exit"
  /\ UNCHANGED <<debug_assertions, cmd, issued, net, request, world, locals>>

\* block_on_all polls the future of order submit: map_err, then and_then.
PollSubmit ==
  /\ pc = "block_on_all"
  /\ cmd.kind = "submit"
  /\ net["order::Post"].state \in {"ok", "err"}
  /\ IF net["order::Post"].state = "err"
     THEN /\ result' = Err(Wrap("failed to submit order: ",
                                <<net["order::Post"].detail>>))
          /\ UNCHANGED stdout
     ELSE /\ stdout' = Append(stdout, Hyphenated(created))
          /\ result' = Ok
  /\ pc' = "exit"
  /\ UNCHANGED <<debug_assertions, cmd, issued, net, request, world, locals>>

\* PollCancel that prints the id of the cancelled order on success.
PollCancel_printing ==
  /\ pc = "block_on_all"
  /\ cmd.kind = "cancel"
  /\ net["order::Delete"].state \in {"ok", "err"}
  /\ IF net["order::Delete"].state = "err"
     THEN /\ result' = Err(Wrap("failed to cancel order: ",
                                <<net["order::Delete"].detail>>))
          /\ UNCHANGED stdout
     ELSE /\ stdout' = Append(stdout, Hyphenated(cmd.id))
          /\ result' = Ok
  /\ pc' = "exit"
  /\ UNCHANGED <<debug_assertions, cmd, issued, net, request, world, locals>>

\* block_on_all polls the future of order cancel: map_err alone.
PollCancel ==
  /\ pc = "block_on_all"
  /\ cmd.kind = "cancel"
  /\ net["order::Delete"].state \in {"ok", "err"}
  /\ result' = IF net["order::Delete"].state = "err"
               THEN Err(Wrap("failed to cancel order: ",
                             <<net["order::Delete"].detail>>))
               ELSE Ok
  /\ pc' = "exit"
  /\ UNCHANGED <<debug_assertions, cmd, issued, net, request, world, locals,
                 stdout>>

\* JoinPoll that lets a failure of get-orders pass as an empty result.
JoinPoll_lenient(a, o) ==
  IF a.state = "err"
  THEN Err(Wrap("failed to retrieve account information: ", <<a.detail>>))
  ELSE IF a.state = "ok" /\ o.state \in {"ok", "err"} THEN Ok
  ELSE Running

\* JoinPoll that wraps the failure of get-orders with the context of
\* get-account.
JoinPoll_context(a, o) ==
  IF a.state = "err"
  THEN Err(Wrap("failed to retrieve account information: ", <<a.detail>>))
  ELSE IF o.state = "err"
  THEN Err(Wrap("failed to retrieve account information: ", <<o.detail>>))
  ELSE IF a.state = "ok" /\ o.state = "ok" THEN Ok
  ELSE Running

\* JoinPoll that reports a failure only once both requests have resolved.
JoinPoll_waiting(a, o) ==
  IF a.state \notin {"ok", "err"} \/ o.state \notin {"ok", "err"} THEN Running
  ELSE IF a.state = "err"
  THEN Err(Wrap("failed to retrieve account information: ", <<a.detail>>))
  ELSE IF o.state = "err"
  THEN Err(Wrap("failed to list orders: ", <<o.detail>>))
  ELSE Ok

\* What a poll of account.join(orders) returns: the join polls account, then
\* orders, returns the first error it meets, and is ready when both are.
JoinPoll(a, o) ==
  IF a.state = "err"
  THEN Err(Wrap("failed to retrieve account information: ", <<a.detail>>))
  ELSE IF o.state = "err"
  THEN Err(Wrap("failed to list orders: ", <<o.detail>>))
  ELSE IF a.state = "ok" /\ o.state = "ok" THEN Ok
  ELSE Running

\* block_on_all polls the future of order list: the join, then the head of
\* the and_then closure (currency, sort_by, the two max_width).
PollList ==
  /\ pc = "block_on_all"
  /\ cmd.kind = "list"
  /\ LET r == JoinPoll(net["account::Get"], net["orders::Get"]) IN
       /\ r.tag # "running"
       /\ IF r.tag = "Err"
          THEN /\ result' = r
               /\ pc' = "exit"
               /\ UNCHANGED locals
          ELSE /\ currency' = account.currency
               /\ sorted' = SortBySymbol(orders)
               /\ qty_max' = max_width(SortBySymbol(orders), QtyLen(orders))
               /\ sym_max' = max_width(SortBySymbol(orders), SymLen(orders))
               /\ pc' = "render"
               /\ UNCHANGED <<next, result>>
  /\ UNCHANGED <<debug_assertions, cmd, issued, net, request, world, stdout>>

\* One turn of `for order in orders`: the price match with its
\* debug_assert!, then the println! of the row.
RenderRow ==
  /\ pc = "render"
  /\ next <= Len(sorted)
  /\ LET order == sorted[next] IN
       IF /\ debug_assertions
          /\ order.type_ # AssertedType(order.limit_price, order.stop_price)
       THEN /\ result' = Panic
            /\ pc' = "exit"
            /\ UNCHANGED <<stdout, next>>
       ELSE /\ stdout' = Append(stdout, Row(order, currency, qty_max, sym_max))
            /\ next' = next + 1
            /\ UNCHANGED <<pc, result>>
  /\ UNCHANGED <<debug_assertions, cmd, issued, net, request, world,
                 currency, sorted, qty_max, sym_max>>

\* The end of the closure of order list: ok(()).
RenderDone ==
  /\ pc = "render"
  /\ next > Len(sorted)
  /\ result' = Ok
  /\ pc' = "exit"
  /\ UNCHANGED <<debug_assertions, cmd, issued, net, request, world, locals,
                 stdout>>

Next ==
  \/ Startup
  \/ Account
  \/ OrderSubmit
  \/ OrderCancel
  \/ OrderList
  \/ Respond
  \/ PollAccount
  \/ PollSubmit
  \/ PollCancel
  \/ PollList
  \/ RenderRow
  \/ RenderDone

Spec == Init /\ [][Next]_vars

(* ------------------------------- claims -------------------------------- *)

\* The state of the two requests of order list.
acct == net["account::Get"]

ords == net["orders::Get"]

\* A handler ran: the command was dispatched and issued its first call.
Dispatched == pc \in {"block_on_all", "render", "exit"} /\ \E e \in Endpoints : issued[e] # <<>>

\* C1: the request order submit builds has the type of the table (both
\* prices -> StopLimit, only limit -> Limit, only stop -> Stop, neither ->
\* Market), carries the two prices as given, and so has a limit price set
\* exactly when its type is Limit or StopLimit and a stop price exactly when
\* its type is Stop or StopLimit.
C1_TypeInference ==
  cmd.kind = "submit" /\ issued["order::Post"] # <<>> =>
    LET r == issued["order::Post"][1]
        l == cmd.limit_price.some
        s == cmd.stop_price.some
    IN /\ r = request
       /\ l /\ s => r.type_ = "StopLimit"
       /\ l /\ ~s => r.type_ = "Limit"
       /\ ~l /\ s => r.type_ = "Stop"
       /\ ~l /\ ~s => r.type_ = "Market"
       /\ r.limit_price = cmd.limit_price
       /\ r.stop_price = cmd.stop_price
       /\ r.limit_price.some <=> r.type_ \in {"Limit", "StopLimit"}
       /\ r.stop_price.some <=> r.type_ \in {"Stop", "StopLimit"}

C1_Witness ==
  /\ cmd.kind = "submit"
  /\ issued["order::Post"] # <<>>
  /\ issued["order::Post"][1].type_ = "Stop"
  /\ issued["order::Post"][1].stop_price = Some(95)
  /\ result = Ok

\* C8: the request order submit builds has time in force Day when the today
\* flag is set and UntilCanceled when it is not, whatever the side, the
\* quantity and the prices are.
C8_TimeInForce ==
  cmd.kind = "submit" /\ issued["order::Post"] # <<>> =>
    LET r == issued["order::Post"][1] IN
      /\ cmd.today => r.time_in_force = "Day"
      /\ ~cmd.today => r.time_in_force = "UntilCanceled"

C8_Witness ==
  /\ cmd.kind = "submit"
  /\ issued["order::Post"] # <<>>
  /\ cmd.today
  /\ cmd.side = "Sell"
  /\ cmd.limit_price.some
  /\ issued["order::Post"][1].time_in_force = "Day"

\* C2: order list writes no row before both requests have succeeded, and
\* once either request has failed, at issuance or at response, it writes no
\* row at all, can fail at once, and does not end other than in failure.
C2_NoPartialListing ==
  cmd.kind = "list" =>
    /\ stdout # <<>> => acct.state = "ok" /\ ords.state = "ok"
    /\ acct.state \in {"unsent", "err"} \/ ords.state \in {"unsent", "err"} =>
         /\ stdout = <<>>
         /\ result.tag \in {"running", "Err"}
         /\ pc \in {"block_on_all", "exit"}
         /\ pc = "exit" => result.tag = "Err"
         /\ pc = "block_on_all" => ENABLED PollList

C2_Witness ==
  /\ cmd.kind = "list"
  /\ acct.state = "ok"
  /\ ords.state = "err"
  /\ orders = <<>>
  /\ pc = "exit"
  /\ result.tag = "Err"
  /\ stdout = <<>>

\* The context each endpoint's issuance failure is to be reported with.
IssueContext ==
  [e \in Endpoints |->
     CASE e = "account::Get" -> "failed to issue GET request to account endpoint: "
       [] e = "order::Post" -> "failed to issue POST request to order endpoint: "
       [] e = "order::Delete" -> "failed to issue DELETE request to order endpoint: "
       [] e = "orders::Get" -> "failed to issue GET request to orders endpoint: "]

\* The context each endpoint's response failure is to be reported with.
ResponseContext ==
  [e \in Endpoints |->
     CASE e = "account::Get" -> "failed to retrieve account information: "
       [] e = "order::Post" -> "failed to submit order: "
       [] e = "order::Delete" -> "failed to cancel order: "
       [] e = "orders::Get" -> "failed to list orders: "]

\* C6: a transport failure is what main returns, as the failing endpoint's
\* context followed by the transport's detail and nothing else: the issue
\* context when issuing failed, the response context when the response
\* failed (for order list, of a request whose response failed); no endpoint
\* is issued to a second time.
C6_ErrorContext ==
  /\ \A e \in Endpoints : Len(issued[e]) <= 1
  /\ \A e \in Endpoints :
       net[e].state = "unsent" =>
         pc = "exit" /\ result = Err(<<IssueContext[e], net[e].detail>>)
  /\ \A e \in Endpoints :
       cmd.kind # "list" /\ net[e].state = "err" /\ pc = "exit" =>
         result = Err(<<ResponseContext[e], net[e].detail>>)
  /\ /\ cmd.kind = "list"
     /\ pc = "exit"
     /\ acct.state = "err" \/ ords.state = "err"
     /\ acct.state # "unsent" /\ ords.state # "unsent"
     => /\ result.tag = "Err"
        /\ result.msg \in
             { <<ResponseContext[e], net[e].detail>> :
                 e \in {x \in Endpoints : net[x].state = "err"} }

C6_Witness ==
  /\ cmd.kind = "account"
  /\ pc = "exit"
  /\ result = Err(<<"failed to retrieve account information: ", "timeout">>)
  /\ Len(issued["account::Get"]) = 1

\* The endpoints on the route of a command.
Route ==
  CASE cmd.kind = "account" -> {"account::Get"}
    [] cmd.kind = "submit" -> {"order::Post"}
    [] cmd.kind = "cancel" -> {"order::Delete"}
    [] cmd.kind = "list" -> {"account::Get", "orders::Get"}

\* What the commands write to standard output: order submit the id of the
\* created order when it succeeds, order cancel nothing.
RouteOutput ==
  /\ cmd.kind = "submit" =>
       /\ issued["order::Post"] = <<request>>
       /\ result = Ok => stdout = <<Hyphenated(created)>>
       /\ result # Ok => stdout = <<>>
  /\ cmd.kind = "cancel" =>
       /\ issued["order::Delete"] = <<cmd.id>>
       /\ stdout = <<>>
  /\ cmd.kind = "account" =>
       Len(stdout) = IF result = Ok THEN 1 ELSE 0

\* C7 as stated: every command that was dispatched has called issue once for
\* each endpoint of its route and for no other endpoint.
C7_EachCallOnce ==
  Dispatched =>
    /\ \A e \in Endpoints : Len(issued[e]) = IF e \in Route THEN 1 ELSE 0
    /\ RouteOutput

\* C7, amended: every command that was dispatched has called issue for no
\* endpoint off its route and once for each endpoint of its route, except
\* that order list does not issue get-orders when issuing get-account
\* failed; order submit writes the created order's id and nothing else when
\* it succeeds, order cancel writes nothing.
C7_RouteCalls ==
  Dispatched =>
    /\ \A e \in Endpoints :
         Len(issued[e]) =
           IF e \notin Route THEN 0
           ELSE IF cmd.kind = "list" /\ e = "orders::Get" /\ acct.state = "unsent"
           THEN 0
           ELSE 1
    /\ RouteOutput

C7_Witness ==
  /\ cmd.kind = "list"
  /\ pc = "exit"
  /\ result = Ok
  /\ Len(stdout) = 2
  /\ Len(issued["account::Get"]) = 1
  /\ Len(issued["orders::Get"]) = 1

\* The rows written so far.
Rows == 1 .. Len(stdout)

\* The place in the get-orders response of the order row k was written for.
PosOf(k) ==
  CHOOSE i \in 1 .. Len(orders) : stdout[k].id = Hyphenated(orders[i].id)

\* a <= b in the lexicographic order of the bytes: a is a prefix of b, or
\* a has the smaller byte at the first place the two differ.
LexLeq(a, b) ==
  \/ Len(a) <= Len(b) /\ \A i \in 1 .. Len(a) : a[i] = b[i]
  \/ \E i \in 1 .. Len(a) :
       /\ i <= Len(b)
       /\ \A j \in 1 .. i - 1 : a[j] = b[j]
       /\ ByteOf[a[i]] < ByteOf[b[i]]

\* The rows written are rows of distinct orders of the response, each with
\* its order's symbol, in ascending order of the symbols, orders of equal
\* symbols in the order of the response.
RowsSortedStable ==
  /\ \A k \in Rows :
       \E i \in 1 .. Len(orders) : stdout[k].id = Hyphenated(orders[i].id)
  /\ \A k \in Rows :
       SubSeq(stdout[k].sym, 1, Len(orders[PosOf(k)].symbol))
         = orders[PosOf(k)].symbol
  /\ \A k, l \in Rows :
       k < l =>
         /\ PosOf(k) # PosOf(l)
         /\ LexLeq(orders[PosOf(k)].symbol, orders[PosOf(l)].symbol)
         /\ orders[PosOf(k)].symbol = orders[PosOf(l)].symbol
              => PosOf(k) < PosOf(l)

Measured == cmd.kind = "list" /\ (pc = "render" \/ result \in {Ok, Panic})

\* w is the largest of the lengths ws, and 0 when there is none.
IsMaxOf(w, ws) ==
  /\ ws = {} => w = 0
  /\ ws # {} => w \in ws
  /\ \A x \in ws : x <= w

\* C4: rows are written only once both widths are computed; the quantity
\* width is the largest length of a formatted quantity and the symbol width
\* the largest length of a symbol over all orders of the response (0 when
\* there is none); every row written holds its quantity right-aligned in
\* exactly the quantity width and its symbol left-aligned in exactly the
\* symbol width.
C4_ColumnWidths ==
  /\ cmd.kind = "list" /\ stdout # <<>> => Measured
  /\ Measured =>
       /\ IsMaxOf(qty_max, {Len(Digits(orders[i].quantity)) : i \in 1 .. Len(orders)})
       /\ IsMaxOf(sym_max, {Len(orders[i].symbol) : i \in 1 .. Len(orders)})
       /\ \A k \in Rows :
            LET o == orders[PosOf(k)]
                q == Digits(o.quantity)
            IN /\ Len(stdout[k].qty) = qty_max
               /\ Len(stdout[k].sym) = sym_max
               /\ stdout[k].qty = Spaces(qty_max - Len(q)) \o q
               /\ stdout[k].sym = o.symbol \o Spaces(sym_max - Len(o.symbol))

C4_Witness ==
  /\ cmd.kind = "list"
  /\ result = Ok
  /\ Len(stdout) = 2
  /\ qty_max = 4
  /\ sym_max = 2
  /\ stdout[1].qty = <<" ", " ", " ", "7">>
  /\ stdout[2].sym = <<"M", " ">>

\* C5: the price description of every row written is the one of the table,
\* chosen by which prices of the row's order are set and by nothing else,
\* with the currency of the account the get-account request returned.
C5_PriceDescription ==
  cmd.kind = "list" =>
    \A k \in Rows :
      LET o == orders[PosOf(k)]
          limit == Digits(o.limit_price.val)
          stop == Digits(o.stop_price.val)
          c == account.currency
      IN /\ acct.state = "ok" /\ account \in Accounts
         /\ o.limit_price.some /\ o.stop_price.some =>
              stdout[k].price =
                <<"stop @ ">> \o stop \o <<" ", c, ", limit @ ">> \o limit \o <<" ", c>>
         /\ o.limit_price.some /\ ~o.stop_price.some =>
              stdout[k].price = <<"limit @ ">> \o limit \o <<" ", c>>
         /\ ~o.limit_price.some /\ o.stop_price.some =>
              stdout[k].price = <<"stop @ ">> \o stop \o <<" ", c>>
         /\ ~o.limit_price.some /\ ~o.stop_price.some =>
              stdout[k].price = <<>>

C5_Witness ==
  /\ cmd.kind = "list"
  /\ account.currency = "EUR"
  /\ Len(stdout) = 2
  /\ stdout[1].price = <<"stop @ ", "9", "5", " ", "EUR", ", limit @ ", "1", "5", "0", " ", "EUR">>
  /\ stdout[2].price = <<>>

\* The populated prices of an order match its declared type.
PricesMatchType(o) ==
  /\ o.type_ = "Market" => ~o.limit_price.some /\ ~o.stop_price.some
  /\ o.type_ = "Limit" => o.limit_price.some /\ ~o.stop_price.some
  /\ o.type_ = "Stop" => ~o.limit_price.some /\ o.stop_price.some
  /\ o.type_ = "StopLimit" => o.limit_price.some /\ o.stop_price.some

\* C9 as stated: order list never completes successfully with a row written
\* for an order whose prices do not match its type.
C9_MismatchFatal ==
  cmd.kind = "list" /\ result = Ok =>
    \A k \in Rows : PricesMatchType(orders[PosOf(k)])

\* C9, amended: in a build with debug assertions, order list writes no row
\* for an order whose prices do not match its type and does not complete
\* successfully when the response holds such an order: it panics when it
\* comes to render the order.
C9_MismatchFatalInDebug ==
  cmd.kind = "list" /\ debug_assertions =>
    /\ \A k \in Rows : PricesMatchType(orders[PosOf(k)])
    /\ result = Ok => \A i \in 1 .. Len(orders) : PricesMatchType(orders[i])
    /\ result = Panic =>
         /\ Len(stdout) < Len(orders)
         /\ \E i \in 1 .. Len(orders) : ~PricesMatchType(orders[i])

C9_Witness ==
  /\ cmd.kind = "list"
  /\ debug_assertions
  /\ result = Panic
  /\ Len(stdout) = 1
  /\ Len(orders) = 2
  /\ orders[2].type_ = "Limit"
  /\ orders[2].stop_price.some

\* The listing of the orders os for the account a.
ListingOf(a, os) ==
  [k \in 1 .. Len(os) |->
     Row(SortBySymbol(os)[k], a.currency, max_width(os, QtyLen(os)),
         max_width(os, SymLen(os)))]

\* Of the two requests of order list, x has failed and y is still pending.
FailedWhilePending(x, y) ==
  /\ cmd.kind = "list"
  /\ pc = "block_on_all"
  /\ net[x].state = "err"
  /\ net[y].state = "pending"

====
